---- MODULE Spec2Model ----
(***************************************************************************)
(* A model of fat32.c: a read-only FAT32 image reader with three           *)
(* operations, info, list and get.  The image (boot sector, FS-info        *)
(* sector, FAT, data clusters) and the command line are the inputs; they   *)
(* are chosen in Init and never change.  The program state is main's       *)
(* position, the globals main computes, the call stack of readCluster, the *)
(* position of fetchFile and copyFile, and what was written so far.        *)
(*                                                                         *)
(* Bytes and code units are numbers; strings are sequences of character    *)
(* codes.  32-bit values of the image are kept below 2^31.                 *)
(***************************************************************************)
EXTENDS Integers, Sequences, FiniteSets, TLC

VARIABLES
    argv,                 \* command line: [argc, cmd, path]
    bootSector,           \* fat32BS as read from the image
    infoSector,           \* fat32FSInfo as read from the image
    fat,                  \* the FAT: cluster index -> raw 32-bit entry
    clusters,             \* data region: cluster index -> directory slots
    pc,                   \* main's position
    entriesPerCluster,    \* global, set by main
    bytesPerCluster,      \* global, set by main
    exitCode,             \* "none" while running, then "success" / "failure" / "crash"
    errMsg,               \* the message printed on a fatal exit
    stack,                \* call stack of readCluster (top is the last frame)
    report,               \* what list / info printed, in order
    fetch,                \* fetchFile's current invocation
    strtokRest,           \* strtok's saved position: the unparsed rest of path
    foundFile,            \* global
    copy,                 \* copyFile's locals
    sink,                 \* the output file: chunks [cluster, len] written
    reads                 \* data clusters read so far (directory slots or file data)

vars == <<argv, bootSector, infoSector, fat, clusters, pc, entriesPerCluster,
          bytesPerCluster, exitCode, errMsg, stack, report, fetch, strtokRest,
          foundFile, copy, sink, reads>>

image == <<argv, bootSector, infoSector, fat, clusters>>

(***************************************************************************)
(* Constants of fat32.c                                                    *)
(***************************************************************************)
END_OF_CLUSTER_CHAIN == 268435448     \* 0x0ffffff8
MASK_FIRST_HEX == 268435455           \* 0x0fffffff
LEAD_SIG == 1096897106                \* 0x41615252
FAT0_HIGH == 268435200                \* 0x0FFFFF00
MIN_TOT_SEC == 65525
RESERVED_LEN == 12
LONG_NAME_CAP == 260                  \* malloc(260 * sizeof(uint16_t))
UNITS_PER_ENTRY == 13                 \* 5 + 6 + 2 code units per long entry
PAD_NUL == 0                          \* 0x0000
PAD_FFFF == 65535                     \* 0xFFFF
END_MARK == 0                         \* first name byte 0x00
DELETED_MARK == 229                   \* first name byte 0xE5
NAME_LEN == 11
BASE_LEN == 8

(***************************************************************************)
(* Constants of fat32.h.  The header is not among the source files; the    *)
(* values are those of the FAT32 on-disk format.                           *)
(***************************************************************************)
EOC == 268435448                      \* 0x0FFFFFF8
ATTR_READ_ONLY == 1
ATTR_HIDDEN == 2
ATTR_SYSTEM == 4
ATTR_VOLUME_ID == 8
ATTR_DIRECTORY == 16
ATTR_ARCHIVE == 32
ATTR_LONG_NAME == 15
ATTR_LONG_NAME_MASK == 63
LAST_LONG_ENTRY == 64
DIR_INFO_SIZE == 32                   \* sizeof(struct DirInfo)

(***************************************************************************)
(* Bounds of the model                                                     *)
(***************************************************************************)
MaxStack == 6          \* readCluster calls in progress at once
MaxFrags == 3          \* slots before the short entry in the long-name inputs
MaxNameLen == 27       \* code units of the short long names (plus those near the cap)
MaxChain == 3          \* clusters the FAT of the file inputs can chain

(***************************************************************************)
(* Arithmetic of C                                                         *)
(***************************************************************************)
RECURSIVE BitAnd(_, _)
BitAnd(a, b) ==
    IF a = 0 \/ b = 0 THEN 0
    ELSE (a % 2) * (b % 2) + 2 * BitAnd(a \div 2, b \div 2)

Mask28(v) == BitAnd(v, MASK_FIRST_HEX)

\* isspace() in the C locale
IsSpace(c) == c \in {32, 9, 10, 11, 12, 13}

\* the C string held in a buffer: the bytes before the first NUL
RECURSIVE CStr(_)
CStr(buf) ==
    IF buf = <<>> \/ Head(buf) = 0 THEN <<>>
    ELSE <<Head(buf)>> \o CStr(Tail(buf))

(***************************************************************************)
(* removeTrailingSpace: end starts at the last character and moves left    *)
(* while it is after the first character and on white space.               *)
(***************************************************************************)
RECURSIVE removeTrailingSpace(_)
removeTrailingSpace(string) ==
    IF Len(string) <= 1 THEN string
    ELSE IF IsSpace(string[Len(string)])
         THEN removeTrailingSpace(SubSeq(string, 1, Len(string) - 1))
         ELSE string

(***************************************************************************)
(* ChkSum: an unsigned char rotate right plus the next byte, over the 11   *)
(* name bytes.                                                             *)
(***************************************************************************)
ChkSumStep(Sum, byte) ==
    ((IF Sum % 2 = 1 THEN 128 ELSE 0) + (Sum \div 2) + byte) % 256

RECURSIVE ChkSumFrom(_, _, _)
ChkSumFrom(pFcbName, k, Sum) ==
    IF k > NAME_LEN THEN Sum
    ELSE ChkSumFrom(pFcbName, k + 1, ChkSumStep(Sum, pFcbName[k]))

ChkSum(pFcbName) == ChkSumFrom(pFcbName, 1, 0)

(***************************************************************************)
(* A directory slot.  The same 32 bytes are read as struct DirInfo and as  *)
(* struct LongNameDirInfo: the order byte of a long entry is the first     *)
(* name byte of the short view.                                            *)
(*   name   : the 11 name bytes      attr  : attribute byte                *)
(*   type   : LDIR_Type              chk   : LDIR_Chksum                   *)
(*   units  : LDIR_Name1 \o LDIR_Name2 \o LDIR_Name3 (13 code units)       *)
(*   hi, lo : dir_first_cluster_hi / _lo     size : dir_file_size          *)
(***************************************************************************)
LDIR_Ord(slot) == slot.name[1]

HasAttr(attr, bit) == BitAnd(attr, bit) = bit

IsLongNameEntry(slot) == BitAnd(slot.attr, ATTR_LONG_NAME_MASK) = ATTR_LONG_NAME

\* the attribute tests shared by the directory and the file branch
IsVisibleShort(slot) ==
    /\ ~IsLongNameEntry(slot)
    /\ ~HasAttr(slot.attr, ATTR_HIDDEN)
    /\ ~HasAttr(slot.attr, ATTR_SYSTEM)
    /\ ~HasAttr(slot.attr, ATTR_VOLUME_ID)

IsDirectoryEntry(slot) == IsVisibleShort(slot) /\ HasAttr(slot.attr, ATTR_DIRECTORY)

IsFileEntry(slot) == IsVisibleShort(slot) /\ ~HasAttr(slot.attr, ATTR_DIRECTORY)

\* ((uint32_t)hi << 16) | lo, masked
FirstCluster(slot) == Mask28(slot.hi * 65536 + slot.lo)

\* givenName: the first 8 name bytes as a C string, trailing space removed
GivenName(slot) == removeTrailingSpace(CStr(SubSeq(slot.name, 1, BASE_LEN)))

\* nameExtension as copied, and after removeTrailingSpace
RawExtension(slot) == CStr(SubSeq(slot.name, BASE_LEN + 1, NAME_LEN))

\* what readCluster prints for a file: no ".ext" when the extension is one space
PrintedFileName(slot) ==
    LET ext == removeTrailingSpace(RawExtension(slot))
    IN  IF Len(ext) = 1 /\ ext[1] = 32 THEN GivenName(slot)
        ELSE GivenName(slot) \o <<46>> \o ext

\* slots as the inputs build them
Spaces(n) == [k \in 1..n |-> 32]

Zeros(n) == [k \in 1..n |-> 0]

\* an 11-byte name field: base and extension padded with spaces
Name83(base, ext) ==
    base \o Spaces(BASE_LEN - Len(base)) \o ext \o Spaces(NAME_LEN - BASE_LEN - Len(ext))

ZeroSlot ==
    [name |-> Zeros(NAME_LEN), attr |-> 0, type |-> 0, chk |-> 0,
     units |-> Zeros(UNITS_PER_ENTRY), hi |-> 0, lo |-> 0, size |-> 0]

ShortSlot(name, attr, cluster, size) ==
    [ZeroSlot EXCEPT !.name = name, !.attr = attr, !.hi = cluster \div 65536,
                     !.lo = cluster % 65536, !.size = size]

LongSlot(ord, chk, type, units) ==
    [ZeroSlot EXCEPT !.name = <<ord>> \o Zeros(NAME_LEN - 1), !.attr = ATTR_LONG_NAME,
                     !.type = type, !.chk = chk, !.units = units]

\* the slot read at index i of a cluster
SlotAt(clusterNum, i) == clusters[clusterNum][i + 1]

getNextFatValue(currentCluster) == fat[currentCluster]

(***************************************************************************)
(* The long name as printed: entries from the last stored to the first,    *)
(* the 13 units of each in order, 0x0000 and 0xFFFF left out.              *)
(***************************************************************************)
RECURSIVE DropPadding(_)
DropPadding(units) ==
    IF units = <<>> THEN <<>>
    ELSE IF Head(units) # PAD_NUL /\ Head(units) # PAD_FFFF
         THEN <<Head(units)>> \o DropPadding(Tail(units))
         ELSE DropPadding(Tail(units))

PrintLongName_Forward(totalLongName, numLongNameEntries) ==
    DropPadding(SubSeq(totalLongName, 1, numLongNameEntries * UNITS_PER_ENTRY))

RECURSIVE PrintLongName(_, _)
PrintLongName(totalLongName, numLongNameEntries) ==
    IF numLongNameEntries = 0 THEN <<>>
    ELSE LET i == numLongNameEntries - 1
         IN  DropPadding(SubSeq(totalLongName, i * UNITS_PER_ENTRY + 1,
                                 i * UNITS_PER_ENTRY + UNITS_PER_ENTRY))
             \o PrintLongName(totalLongName, i)

(***************************************************************************)
(* readCluster.  A frame holds the arguments and locals of one call:       *)
(* pos is "loop" inside the for loop, "chain" after it, "ret" while the    *)
(* call made for the next cluster of the chain runs.  ords is a history    *)
(* of the order bytes of the long entries accepted into totalLongName.     *)
(***************************************************************************)
NewFrame(clusterNum, depth) ==
    [clusterNum |-> clusterNum, depth |-> depth, i |-> 0, pos |-> "loop",
     longNameStarted |-> FALSE, totalLongName |-> <<>>, charsAdded |-> 0,
     numLongNameEntries |-> 0, checkSum |-> 0, previousNameOrder |-> 0,
     ords |-> <<>>]

Top == stack[Len(stack)]

ReplaceTop(frame) == [stack EXCEPT ![Len(stack)] = frame]

\* free(totalLongName); totalLongName = NULL; longNameStarted = false
Discard(f) == [f EXCEPT !.longNameStarted = FALSE, !.totalLongName = <<>>]

\* the long name is printed when one was started and the checksums agree
LongNameMatches_AnySum(f, slot) == f.longNameStarted

LongNameMatches(f, slot) == f.longNameStarted /\ f.checkSum = ChkSum(slot.name)

\* the line(s) printed for a live directory or file entry
Visit(kind, f, slot) ==
    [kind |-> kind, depth |-> f.depth,
     short |-> IF kind = "dir" THEN GivenName(slot) ELSE PrintedFileName(slot),
     hasLong |-> LongNameMatches(f, slot),
     long |-> IF LongNameMatches(f, slot)
              THEN PrintLongName(f.totalLongName, f.numLongNameEntries)
              ELSE <<>>,
     ords |-> IF LongNameMatches(f, slot) THEN f.ords ELSE <<>>,
     at |-> <<f.clusterNum, f.i>>]

\* the first long entry of a chain: it must carry the "last" flag and type 0
StartsLongName(slot) ==
    HasAttr(LDIR_Ord(slot), LAST_LONG_ENTRY) /\ slot.type = 0

StartLongName(f, slot) ==
    IF StartsLongName(slot)
    THEN [f EXCEPT !.longNameStarted = TRUE,
                   !.totalLongName = slot.units,
                   !.charsAdded = UNITS_PER_ENTRY,
                   !.numLongNameEntries = 1,
                   !.checkSum = slot.chk,
                   !.previousNameOrder = LDIR_Ord(slot),
                   !.ords = <<LDIR_Ord(slot)>>]
    ELSE f

\* a second or later long entry is valid: "verify new entry is valid"
AcceptsNextEntry(f, slot) ==
    /\ f.checkSum = slot.chk
    /\ LDIR_Ord(slot) < f.previousNameOrder
    /\ slot.type = 0

ContinueLongName(f, slot) ==
    IF AcceptsNextEntry(f, slot)
    THEN [f EXCEPT !.previousNameOrder = LDIR_Ord(slot),
                   !.numLongNameEntries = f.numLongNameEntries + 1,
                   !.totalLongName = SubSeq(f.totalLongName, 1, f.charsAdded) \o slot.units,
                   !.charsAdded = f.charsAdded + UNITS_PER_ENTRY,
                   !.ords = Append(f.ords, LDIR_Ord(slot))]
    ELSE Discard(f)

\* The memcpy of lines 548-559 is not bounded: an accepted entry is copied
\* at charsAdded whatever the LONG_NAME_CAP units allocated at line 511
\* hold already.  A copy past the allocation is undefined behaviour: the
\* units land in the memory behind the buffer and stay as written, or that
\* memory is overwritten before the name is printed, or the process is
\* ended.
CopiesPastAllocation(f, slot) ==
    /\ IsLongNameEntry(slot)
    /\ f.longNameStarted
    /\ AcceptsNextEntry(f, slot)
    /\ f.charsAdded + UNITS_PER_ENTRY > LONG_NAME_CAP

MemcpyOutcomes(f, slot) ==
    IF CopiesPastAllocation(f, slot) THEN {"written", "overwritten", "ended"}
    ELSE {"written"}

\* the frame when the memory behind the allocation was overwritten
Overwritten(f) ==
    [f EXCEPT !.totalLongName =
        [k \in 1..Len(f.totalLongName) |->
            IF k > LONG_NAME_CAP THEN PAD_NUL ELSE f.totalLongName[k]]]

\* "(i > 1 || depth == 0) && entryName[0] != 0xE5"
IsScanned_AnyIndex(f, slot) == slot.name[1] # DELETED_MARK

IsScanned(f, slot) == (f.i > 1 \/ f.depth = 0) /\ slot.name[1] # DELETED_MARK

\* One iteration of the for loop over the slots of the frame's cluster.
\* The result is the frame after the iteration, what was printed, and the
\* call made for a subdirectory.
ScanSlot(f, slot) ==
    LET next == [f EXCEPT !.i = f.i + 1]
        none == [frame |-> next, printed |-> <<>>, call |-> <<>>]
    IN  IF slot.name[1] = END_MARK
        THEN [none EXCEPT !.frame = [f EXCEPT !.pos = "chain"]]
        ELSE IF ~IsScanned(f, slot) THEN none
        ELSE IF IsDirectoryEntry(slot)
        THEN [frame |-> Discard(next),
              printed |-> <<Visit("dir", f, slot)>>,
              call |-> <<NewFrame(FirstCluster(slot), f.depth + 1)>>]
        ELSE IF IsFileEntry(slot)
        THEN [frame |-> Discard(next),
              printed |-> <<Visit("file", f, slot)>>,
              call |-> <<>>]
        ELSE IF IsLongNameEntry(slot) /\ ~f.longNameStarted
        THEN [none EXCEPT !.frame = StartLongName(next, slot)]
        ELSE IF IsLongNameEntry(slot) /\ f.longNameStarted
        THEN [none EXCEPT !.frame = ContinueLongName(next, slot)]
        ELSE IF f.longNameStarted
        THEN [none EXCEPT !.frame = Discard(next)]
        ELSE none

ListUnchanged ==
    UNCHANGED <<image, pc, entriesPerCluster, bytesPerCluster, exitCode, errMsg,
                fetch, strtokRest, foundFile, copy, sink>>

\* lines 303-579: one slot of the top frame's cluster
RcSlot ==
    /\ pc = "list"
    /\ stack # <<>>
    /\ Top.pos = "loop"
    /\ Top.i < entriesPerCluster
    /\ LET slot == SlotAt(Top.clusterNum, Top.i)
           r == ScanSlot(Top, slot)
           past == slot.name[1] # END_MARK /\ IsScanned(Top, slot)
                   /\ CopiesPastAllocation(Top, slot)
       IN  /\ Len(stack) + Len(r.call) <= MaxStack
           /\ \E outcome \in (IF past THEN MemcpyOutcomes(Top, slot) ELSE {"written"}) :
                 IF outcome = "ended"
                 THEN /\ pc' = "exit"
                      /\ exitCode' = "crash"
                      /\ UNCHANGED <<stack, report>>
                 ELSE /\ stack' = ReplaceTop(IF outcome = "overwritten"
                                             THEN Overwritten(r.frame)
                                             ELSE r.frame) \o r.call
                      /\ report' = report \o r.printed
                      /\ UNCHANGED <<pc, exitCode>>
    /\ reads' = reads \cup {Top.clusterNum}
    /\ UNCHANGED <<image, entriesPerCluster, bytesPerCluster, errMsg, fetch, strtokRest,
                   foundFile, copy, sink>>

\* lines 581-590: after the loop, follow the FAT; a value below
\* END_OF_CLUSTER_CHAIN is read as the next cluster of this directory
RcChain ==
    /\ pc = "list"
    /\ stack # <<>>
    /\ \/ Top.pos = "chain"
       \/ Top.pos = "loop" /\ Top.i >= entriesPerCluster
    /\ LET newCluster == Mask28(getNextFatValue(Top.clusterNum))
       IN  IF newCluster < END_OF_CLUSTER_CHAIN
           THEN /\ Len(stack) < MaxStack
                /\ stack' = ReplaceTop([Top EXCEPT !.pos = "ret"])
                                \o <<NewFrame(newCluster, Top.depth)>>
           ELSE stack' = SubSeq(stack, 1, Len(stack) - 1)
    /\ UNCHANGED <<report, reads>>
    /\ ListUnchanged

\* lines 592-600: the call for the next cluster returned; free and return
RcReturn ==
    /\ pc = "list"
    /\ stack # <<>>
    /\ Top.pos = "ret"
    /\ stack' = SubSeq(stack, 1, Len(stack) - 1)
    /\ UNCHANGED <<report, reads>>
    /\ ListUnchanged

(***************************************************************************)
(* strtok(path, "/"): a pointer is a sequence holding the string it points *)
(* to, or the empty sequence for NULL.                                     *)
(***************************************************************************)
NULL == <<>>

Ptr(string) == <<string>>

RECURSIVE SkipDelimiters(_)
SkipDelimiters(string) ==
    IF string # <<>> /\ Head(string) = 47 THEN SkipDelimiters(Tail(string))
    ELSE string

RECURSIVE UpToDelimiter(_)
UpToDelimiter(string) ==
    IF string = <<>> \/ Head(string) = 47 THEN <<>>
    ELSE <<Head(string)>> \o UpToDelimiter(Tail(string))

\* the token strtok returns when it resumes at `rest`, and where it stops
StrtokToken(rest) ==
    IF SkipDelimiters(rest) = <<>> THEN NULL
    ELSE Ptr(UpToDelimiter(SkipDelimiters(rest)))

StrtokRest(rest) ==
    LET s == SkipDelimiters(rest)
        n == Len(UpToDelimiter(s))
    IN  IF n + 1 >= Len(s) THEN <<>> ELSE SubSeq(s, n + 2, Len(s))

\* "count += (path[i] == '/')"
RECURSIVE CountSlashes(_)
CountSlashes(path) ==
    IF path = <<>> THEN 0
    ELSE (IF Head(path) = 47 THEN 1 ELSE 0) + CountSlashes(Tail(path))

(***************************************************************************)
(* main                                                                    *)
(***************************************************************************)
Fail(message) ==
    /\ pc' = "exit"
    /\ exitCode' = "failure"
    /\ errMsg' = message

\* lines 58-92: the argument count, the two sector reads, the derived globals
MainStart ==
    /\ pc = "start"
    /\ IF argv.argc < 3
       THEN /\ Fail("Incorrect parameters")
            /\ UNCHANGED <<entriesPerCluster, bytesPerCluster>>
       ELSE /\ entriesPerCluster' =
                   (bootSector.BPB_SecPerClus * bootSector.BPB_BytesPerSec)
                       \div DIR_INFO_SIZE
            /\ bytesPerCluster' = bootSector.BPB_SecPerClus * bootSector.BPB_BytesPerSec
            /\ pc' = "validate"
            /\ UNCHANGED <<exitCode, errMsg>>
    /\ UNCHANGED <<image, stack, report, fetch, strtokRest, foundFile, copy, sink, reads>>

\* lines 94-165: the checks in the order main makes them; "" when all pass
FailedCheck_NoFat1 ==
    IF infoSector.lead_sig # LEAD_SIG THEN "Info sector does not exist"
    ELSE IF bootSector.BS_jmpBoot # 235 /\ bootSector.BS_jmpBoot # 233
    THEN "Jump validation failed"
    ELSE IF bootSector.BPB_RootClus < 2 THEN "BPB_RootClus validation failed"
    ELSE IF bootSector.BPB_FATSz32 = 0 THEN "BPB_FATSz32 validation failed"
    ELSE IF bootSector.BPB_TotSec32 < MIN_TOT_SEC THEN "BPB_TotSec32 validation failed"
    ELSE IF \E k \in 1..RESERVED_LEN : bootSector.BPB_reserved[k] # 0
    THEN "BPB_reserved validation failed"
    ELSE IF Mask28(getNextFatValue(0)) # bootSector.BPB_Media + FAT0_HIGH
    THEN "FAT validation 0 failed"
    ELSE ""

FailedCheck ==
    IF infoSector.lead_sig # LEAD_SIG THEN "Info sector does not exist"
    ELSE IF bootSector.BS_jmpBoot # 235 /\ bootSector.BS_jmpBoot # 233
    THEN "Jump validation failed"
    ELSE IF bootSector.BPB_RootClus < 2 THEN "BPB_RootClus validation failed"
    ELSE IF bootSector.BPB_FATSz32 = 0 THEN "BPB_FATSz32 validation failed"
    ELSE IF bootSector.BPB_TotSec32 < MIN_TOT_SEC THEN "BPB_TotSec32 validation failed"
    ELSE IF \E k \in 1..RESERVED_LEN : bootSector.BPB_reserved[k] # 0
    THEN "BPB_reserved validation failed"
    ELSE IF Mask28(getNextFatValue(0)) # bootSector.BPB_Media + FAT0_HIGH
    THEN "FAT validation 0 failed"
    ELSE IF Mask28(getNextFatValue(1)) # MASK_FIRST_HEX
    THEN "FAT validation 1 failed"
    ELSE ""

Validate ==
    /\ pc = "validate"
    /\ IF FailedCheck # ""
       THEN Fail(FailedCheck)
       ELSE pc' = "dispatch" /\ UNCHANGED <<exitCode, errMsg>>
    /\ UNCHANGED <<image, entriesPerCluster, bytesPerCluster, stack, report, fetch,
                   strtokRest, foundFile, copy, sink, reads>>

\* lines 229-270: what printInfo prints of the geometry
printInfo ==
    [kind |-> "info",
     secPerClus |-> bootSector.BPB_SecPerClus,
     clusterSizeBytes |-> bootSector.BPB_BytesPerSec * bootSector.BPB_SecPerClus]

NoFetch == [clusterNum |-> 0, target |-> NULL, numLeft |-> 0, i |-> 0, pos |-> "idle"]

NewFetch(clusterNum, target, numLeft) ==
    [clusterNum |-> clusterNum, target |-> target, numLeft |-> numLeft,
     i |-> 0, pos |-> "enter"]

\* lines 167-217
Dispatch ==
    /\ pc = "dispatch"
    /\ IF argv.cmd = "info"
       THEN /\ report' = Append(report, printInfo)
            /\ pc' = "finish"
            /\ UNCHANGED <<exitCode, errMsg, stack, fetch, strtokRest, foundFile>>
       ELSE IF argv.cmd = "list"
       THEN /\ stack' = <<NewFrame(Mask28(bootSector.BPB_RootClus), 0)>>
            /\ pc' = "list"
            /\ UNCHANGED <<exitCode, errMsg, report, fetch, strtokRest, foundFile>>
       ELSE IF argv.cmd = "get"
       THEN IF argv.argc # 4
            THEN /\ Fail("Incorrect parameters")
                 /\ UNCHANGED <<stack, report, fetch, strtokRest, foundFile>>
            ELSE /\ fetch' = NewFetch(Mask28(bootSector.BPB_RootClus),
                                      StrtokToken(argv.path), CountSlashes(argv.path))
                 /\ strtokRest' = StrtokRest(argv.path)
                 /\ foundFile' = FALSE
                 /\ pc' = "get"
                 /\ UNCHANGED <<exitCode, errMsg, stack, report>>
       ELSE /\ Fail("Incorrect parameters")
            /\ UNCHANGED <<stack, report, fetch, strtokRest, foundFile>>
    /\ UNCHANGED <<image, entriesPerCluster, bytesPerCluster, copy, sink, reads>>

\* lines 200-210: the outcome of get
GetResult ==
    /\ pc = "afterGet"
    /\ IF foundFile
       THEN pc' = "finish" /\ UNCHANGED <<exitCode, errMsg>>
       ELSE Fail("Error, file could not be found")
    /\ UNCHANGED <<image, entriesPerCluster, bytesPerCluster, stack, report, fetch,
                   strtokRest, foundFile, copy, sink, reads>>

\* lines 219-221: main returns, after info, after readCluster returned, after get
Finish ==
    /\ pc = "finish" \/ (pc = "list" /\ stack = <<>>)
    /\ pc' = "exit"
    /\ exitCode' = "success"
    /\ UNCHANGED <<image, entriesPerCluster, bytesPerCluster, errMsg, stack, report,
                   fetch, strtokRest, foundFile, copy, sink, reads>>

(***************************************************************************)
(* fetchFile.  Every call of fetchFile is the last thing its caller does   *)
(* that changes state: after the call for a matching directory the caller  *)
(* breaks, frees its buffers and, foundTarget being true, returns; the     *)
(* call for the next cluster is the last statement.  So one record holds   *)
(* the current invocation, and a call replaces it.                         *)
(***************************************************************************)
\* fullName: givenName, ".", nameExtension as copied from the entry
FullName(slot) == GivenName(slot) \o <<46>> \o RawExtension(slot)

NoCopy == [called |-> FALSE, targetDir |-> ZeroSlot, bytesLeft |-> 0,
           startingCluster |-> 0, destination |-> <<>>]

GetUnchanged ==
    UNCHANGED <<image, entriesPerCluster, bytesPerCluster, exitCode, errMsg, stack,
                report>>

\* lines 658-668: a NULL or empty target returns at once
FfEnter ==
    /\ pc = "get"
    /\ fetch.pos = "enter"
    /\ IF fetch.target = NULL \/ fetch.target[1] = <<>>
       THEN pc' = "afterGet" /\ fetch' = [fetch EXCEPT !.pos = "idle"]
       ELSE pc' = pc /\ fetch' = [fetch EXCEPT !.pos = "loop"]
    /\ UNCHANGED <<strtokRest, foundFile, copy, sink, reads>>
    /\ GetUnchanged

\* lines 677-754: one slot of the cluster searched
FfSlot ==
    /\ pc = "get"
    /\ fetch.pos = "loop"
    /\ fetch.i < entriesPerCluster
    /\ LET slot == SlotAt(fetch.clusterNum, fetch.i)
           target == fetch.target[1]
           next == [fetch EXCEPT !.i = fetch.i + 1]
       IN  IF slot.name[1] = END_MARK
           THEN /\ fetch' = [fetch EXCEPT !.pos = "chain"]
                /\ UNCHANGED <<pc, strtokRest, foundFile, copy>>
           ELSE IF slot.name[1] = DELETED_MARK
           THEN /\ fetch' = next
                /\ UNCHANGED <<pc, strtokRest, foundFile, copy>>
           ELSE IF fetch.numLeft # 0 /\ IsDirectoryEntry(slot)
           THEN IF target = GivenName(slot)
                THEN /\ fetch' = NewFetch(FirstCluster(slot), StrtokToken(strtokRest),
                                          fetch.numLeft - 1)
                     /\ strtokRest' = StrtokRest(strtokRest)
                     /\ UNCHANGED <<pc, foundFile, copy>>
                ELSE /\ fetch' = next
                     /\ UNCHANGED <<pc, strtokRest, foundFile, copy>>
           ELSE IF fetch.numLeft = 0 /\ IsFileEntry(slot)
           THEN IF target = FullName(slot)
                THEN /\ foundFile' = TRUE
                     /\ fetch' = [fetch EXCEPT !.pos = "idle"]
                     /\ copy' = [called |-> TRUE,
                                 targetDir |-> slot,
                                 bytesLeft |-> slot.size,
                                 startingCluster |-> FirstCluster(slot),
                                 destination |-> FullName(slot)]
                     /\ pc' = "copy"
                     /\ UNCHANGED strtokRest
                ELSE /\ fetch' = next
                     /\ UNCHANGED <<pc, strtokRest, foundFile, copy>>
           ELSE /\ fetch' = next
                /\ UNCHANGED <<pc, strtokRest, foundFile, copy>>
    /\ reads' = reads \cup {fetch.clusterNum}
    /\ UNCHANGED sink
    /\ GetUnchanged

\* lines 762-771: nothing matched in this cluster; follow the FAT
FfChain ==
    /\ pc = "get"
    /\ \/ fetch.pos = "chain"
       \/ fetch.pos = "loop" /\ fetch.i >= entriesPerCluster
    /\ LET newCluster == Mask28(getNextFatValue(fetch.clusterNum))
       IN  IF newCluster < END_OF_CLUSTER_CHAIN
           THEN /\ fetch' = NewFetch(newCluster, fetch.target, fetch.numLeft)
                /\ pc' = pc
           ELSE /\ fetch' = [fetch EXCEPT !.pos = "idle"]
                /\ pc' = "afterGet"
    /\ UNCHANGED <<strtokRest, foundFile, copy, sink, reads>>
    /\ GetUnchanged

(***************************************************************************)
(* copyFile.  The sink receives, per iteration, the first len bytes of the *)
(* cluster read.                                                           *)
(***************************************************************************)
\* "bytesLeft != 0 && startingCluster < EOC && startingCluster != 0"
CopyContinues_NoZeroTest(c) == c.bytesLeft # 0 /\ c.startingCluster < EOC

CopyContinues(c) == c.bytesLeft # 0 /\ c.startingCluster < EOC /\ c.startingCluster # 0

\* lines 809-823: how many bytes of the cluster read go to the sink
CopyChunkLen_Whole(c) == bytesPerCluster

CopyChunkLen(c) ==
    IF c.bytesLeft >= bytesPerCluster THEN bytesPerCluster ELSE c.bytesLeft

\* lines 809-823: bytesLeft and startingCluster after the iteration
CopyAdvance_KeepsBytesLeft(c) ==
    IF c.bytesLeft >= bytesPerCluster
    THEN [c EXCEPT !.startingCluster = Mask28(getNextFatValue(c.startingCluster))]
    ELSE [c EXCEPT !.bytesLeft = 0]

CopyAdvance(c) ==
    IF c.bytesLeft >= bytesPerCluster
    THEN [c EXCEPT !.bytesLeft = c.bytesLeft - bytesPerCluster,
                   !.startingCluster = Mask28(getNextFatValue(c.startingCluster))]
    ELSE [c EXCEPT !.bytesLeft = 0]

\* lines 801-824: one iteration of the while loop
CfStep ==
    /\ pc = "copy"
    /\ CopyContinues(copy)
    /\ reads' = reads \cup {copy.startingCluster}
    /\ sink' = Append(sink, [cluster |-> copy.startingCluster, len |-> CopyChunkLen(copy)])
    /\ copy' = CopyAdvance(copy)
    /\ UNCHANGED <<pc, fetch, strtokRest, foundFile>>
    /\ GetUnchanged

\* lines 826-830, and the return through the callers of fetchFile
CfDone ==
    /\ pc = "copy"
    /\ ~CopyContinues(copy)
    /\ pc' = "afterGet"
    /\ UNCHANGED <<fetch, strtokRest, foundFile, copy, sink, reads>>
    /\ GetUnchanged

(***************************************************************************)
(* The inputs: images and command lines.                                   *)
(***************************************************************************)
\* names, as character codes
N_DOT == Name83(<<46>>, <<>>)                          \* "."
N_DOTDOT == Name83(<<46, 46>>, <<>>)                   \* ".."
N_SUB1 == Name83(<<83, 85, 66, 49>>, <<>>)             \* "SUB1"
N_SUB2 == Name83(<<83, 85, 66, 50>>, <<>>)             \* "SUB2"
N_README == Name83(<<82, 69, 65, 68, 77, 69>>, <<84, 88, 84>>)   \* "README.TXT"
N_A_TXT == Name83(<<65>>, <<84, 88, 84>>)              \* "A.TXT"
N_B_C == Name83(<<66>>, <<67>>)                        \* "B.C"
N_F_TXT == Name83(<<70>>, <<84, 88, 84>>)              \* "F.TXT"
N_DELETED == <<DELETED_MARK>> \o Tail(N_A_TXT)

P_README == <<82, 69, 65, 68, 77, 69, 46, 84, 88, 84>>             \* "README.TXT"
P_SUB1_A_TXT == <<83, 85, 66, 49, 47, 65, 46, 84, 88, 84>>         \* "SUB1/A.TXT"
P_SUB1_B_C == <<83, 85, 66, 49, 47, 66, 46, 67>>                   \* "SUB1/B.C"
P_SUB1 == <<83, 85, 66, 49>>                                       \* "SUB1"
P_SUB1_SLASH == <<83, 85, 66, 49, 47>>                             \* "SUB1/"
P_F_TXT == <<70, 46, 84, 88, 84>>                                  \* "F.TXT"

FatOf(entries) == [c \in 0..(Len(entries) - 1) |-> entries[c + 1]]

GoodBoot(bytesPerSec, secPerClus) ==
    [BS_jmpBoot |-> 235, BPB_BytesPerSec |-> bytesPerSec, BPB_SecPerClus |-> secPerClus,
     BPB_RsvdSecCnt |-> 32, BPB_NumFATs |-> 2, BPB_FATSz32 |-> 1, BPB_RootClus |-> 2,
     BPB_TotSec32 |-> MIN_TOT_SEC, BPB_reserved |-> Zeros(RESERVED_LEN), BPB_Media |-> 248]

GoodInfo == [lead_sig |-> LEAD_SIG]

FAT0 == 248 + FAT0_HIGH        \* media byte 0xF8 under the high pattern
FAT1 == MASK_FIRST_HEX
HighNibble == MASK_FIRST_HEX + 1   \* 0x10000000: a bit the mask clears

\* a cluster of directory slots: the given slots, then zero bytes
DirCluster(slots, n) == slots \o [k \in 1..(n - Len(slots)) |-> ZeroSlot]

Input(a, b, i, f, c) == [argv |-> a, boot |-> b, info |-> i, fat |-> f, clusters |-> c]

ArgList == [argc |-> 3, cmd |-> "list", path |-> <<>>]
ArgInfo == [argc |-> 3, cmd |-> "info", path |-> <<>>]
ArgGet(path) == [argc |-> 4, cmd |-> "get", path |-> path]

(* Boot sectors, valid and invalid in each field the checks read, over a   *)
(* root directory holding one file.                                        *)
BootArgs ==
    {ArgList, ArgInfo, ArgGet(P_README),
     [argc |-> 2, cmd |-> "", path |-> <<>>],
     [argc |-> 3, cmd |-> "get", path |-> <<>>],
     [argc |-> 5, cmd |-> "get", path |-> P_README],
     [argc |-> 4, cmd |-> "list", path |-> P_README],
     [argc |-> 3, cmd |-> "copy", path |-> <<>>]}

ReservedChoices ==
    {Zeros(RESERVED_LEN),
     [Zeros(RESERVED_LEN) EXCEPT ![1] = 1],
     [Zeros(RESERVED_LEN) EXCEPT ![RESERVED_LEN] = 255]}

BootInputs ==
    { Input(a,
            [GoodBoot(64, spc) EXCEPT !.BS_jmpBoot = jmp, !.BPB_RootClus = root,
                                      !.BPB_FATSz32 = fsz, !.BPB_TotSec32 = tot,
                                      !.BPB_reserved = res],
            [lead_sig |-> sig],
            FatOf(<<f0, f1, EOC, EOC>>),
            2 :> DirCluster(<<ShortSlot(N_README, ATTR_ARCHIVE, 3, 10)>>, 2)) :
        a \in BootArgs, spc \in {0, 1}, jmp \in {235, 233, 144}, root \in {1, 2},
        fsz \in {0, 1}, tot \in {MIN_TOT_SEC - 1, MIN_TOT_SEC}, res \in ReservedChoices,
        sig \in {LEAD_SIG, 0},
        f0 \in {FAT0, FAT0 + HighNibble, FAT0 - 8},
        f1 \in {FAT1, FAT1 - 8} }

(* A directory tree: the root holds SUB1 and README.TXT; SUB1 is a chain   *)
(* of one or two clusters of three slots, with ".", ".." and the entry x   *)
(* in the first and y, z in the second.                                    *)
TreeSlots ==
    {ShortSlot(N_A_TXT, ATTR_ARCHIVE, 6, 5),
     ShortSlot(N_B_C, ATTR_READ_ONLY, 7, 3),
     ShortSlot(N_SUB2, ATTR_DIRECTORY, 8, 0),
     ShortSlot(N_DELETED, ATTR_ARCHIVE, 6, 5),
     ShortSlot(N_F_TXT, ATTR_ARCHIVE + ATTR_HIDDEN, 6, 5),
     ZeroSlot}

TreeArgs == {ArgList, ArgGet(P_SUB1_A_TXT), ArgGet(P_SUB1_B_C), ArgGet(P_README),
             ArgGet(P_SUB1), ArgGet(P_SUB1_SLASH), ArgGet(P_F_TXT)}

TreeInputs ==
    { Input(a, GoodBoot(96, 1), GoodInfo,
            FatOf(<<FAT0, FAT1, EOC, next3, EOC, EOC, EOC, EOC, EOC>>),
            2 :> <<ShortSlot(N_SUB1, ATTR_DIRECTORY, 3, 0),
                   ShortSlot(N_README, ATTR_ARCHIVE, 5, 100),
                   ZeroSlot>>
            @@ 3 :> <<ShortSlot(N_DOT, ATTR_DIRECTORY, 3, 0),
                      ShortSlot(N_DOTDOT, ATTR_DIRECTORY, 0, 0),
                      x>>
            @@ 4 :> <<y, z, ZeroSlot>>
            @@ 8 :> <<ShortSlot(N_DOT, ATTR_DIRECTORY, 8, 0),
                      ShortSlot(N_DOTDOT, ATTR_DIRECTORY, 3, 0),
                      ZeroSlot>>) :
        a \in TreeArgs, next3 \in {4, 4 + HighNibble, EOC, MASK_FIRST_HEX},
        x \in TreeSlots, y \in TreeSlots, z \in TreeSlots }

(* Long-name entries in the root directory: up to MaxFrags slots drawn     *)
(* from long entries of several orders, checksums and types, a deleted     *)
(* and a volume-id entry, followed by one short entry.                     *)
SeqsUpTo(S, n) == UNION {[1..k -> S] : k \in 0..n}

UnitsFor(ord) == [j \in 1..UNITS_PER_ENTRY |-> 1000 + (ord % LAST_LONG_ENTRY) * UNITS_PER_ENTRY + j]

GoodSum == ChkSum(N_A_TXT)
OtherSum == (GoodSum + 1) % 256

LfnItems ==
    {LongSlot(LAST_LONG_ENTRY + 3, GoodSum, 0, UnitsFor(3)),
     LongSlot(LAST_LONG_ENTRY + 2, GoodSum, 0, UnitsFor(2)),
     LongSlot(2, GoodSum, 0, UnitsFor(2)),
     LongSlot(1, GoodSum, 0, UnitsFor(1)),
     LongSlot(1, OtherSum, 0, UnitsFor(1)),
     LongSlot(1, GoodSum, 1, UnitsFor(1)),
     ShortSlot(N_DELETED, ATTR_ARCHIVE, 6, 5),
     ShortSlot(N_F_TXT, ATTR_VOLUME_ID, 0, 0)}

LfnFinals ==
    {ShortSlot(N_A_TXT, ATTR_ARCHIVE, 6, 5),
     ShortSlot(N_A_TXT, ATTR_DIRECTORY, 3, 0),
     ShortSlot(N_README, ATTR_ARCHIVE, 6, 5)}

LfnInputs ==
    { Input(ArgList, GoodBoot(512, 1), GoodInfo,
            FatOf(<<FAT0, FAT1, EOC, EOC>>),
            2 :> DirCluster(prefix \o <<final>>, 16)
            @@ 3 :> DirCluster(<<>>, 16)) :
        prefix \in SeqsUpTo(LfnItems, MaxFrags), final \in LfnFinals }

(* Well-formed long-name chains: a string of code units cut into entries   *)
(* of 13, a 0x0000 after the string and 0xFFFF up to the end of the last   *)
(* entry, stored from the last entry (flagged) down to entry 1, each with  *)
(* the checksum of the short entry that follows.                           *)
LongNameLengths ==
    (1..MaxNameLen) \cup ((LONG_NAME_CAP - UNITS_PER_ENTRY)..LONG_NAME_CAP)

LongNames ==
    {[j \in 1..len |-> 97 + ((j * k) % 7)] : len \in LongNameLengths, k \in {1, 3}}

Padded(string) ==
    IF Len(string) % UNITS_PER_ENTRY = 0 THEN string
    ELSE string \o <<PAD_NUL>>
         \o [j \in 1..(UNITS_PER_ENTRY - 1 - (Len(string) % UNITS_PER_ENTRY)) |-> PAD_FFFF]

NumEntries(string) == Len(Padded(string)) \div UNITS_PER_ENTRY

\* the entries of a name as stored: position p holds sequence number N + 1 - p
Encoded(string, short) ==
    LET n == NumEntries(string)
    IN  [p \in 1..n |->
            LET seq == n + 1 - p
            IN  LongSlot(IF p = 1 THEN seq + LAST_LONG_ENTRY ELSE seq,
                         ChkSum(short.name), 0,
                         SubSeq(Padded(string), (seq - 1) * UNITS_PER_ENTRY + 1,
                                seq * UNITS_PER_ENTRY))]

ChainInputs ==
    { Input(ArgList, GoodBoot(512, 2), GoodInfo,
            FatOf(<<FAT0, FAT1, next2, EOC>>),
            2 :> DirCluster(Encoded(string, final) \o <<final>>, 32)
            @@ 3 :> DirCluster(<<>>, 32)) :
        string \in LongNames, final \in LfnFinals, next2 \in {MASK_FIRST_HEX, 3} }

(* Chains of one entry more than the buffer of a long name holds: 21      *)
(* entries of descending order, all with the checksum of the short entry   *)
(* that follows.                                                           *)
OverlongLengths == {LONG_NAME_CAP + 1, LONG_NAME_CAP + UNITS_PER_ENTRY}

OverlongInputs ==
    { Input(ArgList, GoodBoot(512, 2), GoodInfo,
            FatOf(<<FAT0, FAT1, EOC, EOC>>),
            2 :> DirCluster(Encoded([j \in 1..len |-> 97 + (j % 7)], final) \o <<final>>, 32)
            @@ 3 :> DirCluster(<<>>, 32)) :
        len \in OverlongLengths, final \in LfnFinals }

(* Files: the root holds F.TXT with a declared size and a first cluster;   *)
(* the FAT chains clusters 3, 4, ... and ends the chain early, late or     *)
(* with a 0.                                                               *)
FileSizes(bpc) == {k * bpc + d : k \in 0..MaxChain, d \in {0, 1, bpc - 1}}

FatLinks(c) ==
    IF c = 2 + MaxChain THEN {EOC, 0}
    ELSE IF c = 3 THEN {c + 1, c + 1 + HighNibble, EOC, MASK_FIRST_HEX, 0}
    ELSE {c + 1, EOC, 0}

FileFats ==
    { FatOf(<<FAT0, FAT1, EOC>> \o links) :
        links \in {l \in [1..MaxChain -> UNION {FatLinks(c) : c \in 3..(2 + MaxChain)}] :
                      \A j \in 1..MaxChain : l[j] \in FatLinks(2 + j)} }

FileInputs ==
    UNION { { Input(ArgGet(path), GoodBoot(64, spc), GoodInfo, f,
                    2 :> DirCluster(<<ShortSlot(N_F_TXT, ATTR_ARCHIVE, first, size)>>,
                                    2 * spc)) :
                path \in {P_F_TXT, P_README}, f \in FileFats,
                first \in {0, 3, 3 + HighNibble}, size \in FileSizes(64 * spc) } :
            spc \in {1, 2} }

(* Damaged chains: cluster 3, 4, ... up to a cluster whose FAT entry leads *)
(* back to cluster 3, ends the chain or is 0; the file starts at cluster 3 *)
(* or at the reserved number 1.                                            *)
DamagedLinks ==
    { [j \in 1..MaxChain |-> IF j < k THEN 3 + j ELSE IF j = k THEN back ELSE EOC] :
        k \in 1..MaxChain, back \in {3, EOC, 0} }

DamagedInputs ==
    { Input(ArgGet(path), GoodBoot(64, 1), GoodInfo,
            FatOf(<<FAT0, FAT1, EOC>> \o links),
            2 :> DirCluster(<<ShortSlot(N_F_TXT, ATTR_ARCHIVE, first, size)>>, 2)) :
        path \in {P_F_TXT, P_README}, links \in DamagedLinks, first \in {1, 3},
        size \in FileSizes(64) }

(* The same file on a volume of 0 sectors per cluster, which the checks of *)
(* main let through, over a chain that leads back to its first cluster.    *)
ZeroGeometryInputs ==
    { Input(ArgGet(P_F_TXT), GoodBoot(64, 0), GoodInfo,
            FatOf(<<FAT0, FAT1, EOC, 4, 3>>),
            2 :> <<ShortSlot(N_F_TXT, ATTR_ARCHIVE, 3, size)>>) :
        size \in {1, 64} }

InitWith(inputs) ==
    /\ \E t \in inputs :
          /\ argv = t.argv
          /\ bootSector = t.boot
          /\ infoSector = t.info
          /\ fat = t.fat
          /\ clusters = t.clusters
    /\ pc = "start"
    /\ entriesPerCluster = 0
    /\ bytesPerCluster = 0
    /\ exitCode = "none"
    /\ errMsg = ""
    /\ stack = <<>>
    /\ report = <<>>
    /\ fetch = NoFetch
    /\ strtokRest = <<>>
    /\ foundFile = FALSE
    /\ copy = NoCopy
    /\ sink = <<>>
    /\ reads = {}

\* the whole program, over the boot sectors and the directory trees
Init == InitWith(BootInputs \cup TreeInputs)

Next ==
    \/ MainStart
    \/ Validate
    \/ Dispatch
    \/ RcSlot
    \/ RcChain
    \/ RcReturn
    \/ FfEnter
    \/ FfSlot
    \/ FfChain
    \/ CfStep
    \/ CfDone
    \/ GetResult
    \/ Finish

Spec == Init /\ [][Next]_vars

\* list, over the long-name inputs
InitList == InitWith(LfnInputs \cup ChainInputs \cup OverlongInputs)

NextList ==
    \/ MainStart
    \/ Validate
    \/ Dispatch
    \/ RcSlot
    \/ RcChain
    \/ RcReturn
    \/ Finish

SpecList == InitList /\ [][NextList]_vars

\* get, over the file inputs
InitGet == InitWith(FileInputs)

NextGet ==
    \/ MainStart
    \/ Validate
    \/ Dispatch
    \/ FfEnter
    \/ FfSlot
    \/ FfChain
    \/ CfStep
    \/ CfDone
    \/ GetResult
    \/ Finish

SpecGet == InitGet /\ [][NextGet]_vars

\* get, over the damaged chains and the volume of 0 sectors per cluster, as
\* the process runs it: a sequential program takes its next step whenever
\* it has one
InitDamaged == InitWith(DamagedInputs \cup ZeroGeometryInputs)

SpecDamaged == InitDamaged /\ [][NextGet]_vars /\ WF_vars(NextGet)

(***************************************************************************)
(* Properties                                                              *)
(***************************************************************************)
\* the eight volume checks, as the specification lists them
VolumeChecksPass ==
    /\ infoSector.lead_sig = 1096897106
    /\ bootSector.BS_jmpBoot \in {235, 233}
    /\ bootSector.BPB_RootClus >= 2
    /\ bootSector.BPB_FATSz32 # 0
    /\ bootSector.BPB_TotSec32 >= 65525
    /\ \A k \in 1..12 : bootSector.BPB_reserved[k] = 0
    /\ fat[0] % 268435456 = bootSector.BPB_Media + 268435200
    /\ fat[1] % 268435456 = 268435455

\* an operation has started, or has read or written something
OperationStarted ==
    \/ pc \in {"list", "get", "copy", "afterGet", "finish"}
    \/ stack # <<>>
    \/ fetch.pos # "idle"
    \/ copy.called
    \/ reads # {}
    \/ report # <<>>
    \/ sink # <<>>

\* C1: no operation starts unless every volume check has passed; when a
\* check fails the run ends in a failure exit, no directory slot or data
\* cluster having been read and nothing having been written.
C1_NoOperationOnInvalidVolume ==
    /\ OperationStarted => VolumeChecksPass
    /\ (pc = "exit" /\ ~VolumeChecksPass) => exitCode = "failure"

\* a run that ended at the last check alone, FAT[1], with a command given
C1_Witness ==
    /\ pc = "exit"
    /\ exitCode = "failure"
    /\ argv.cmd = "list"
    /\ errMsg = "FAT validation 1 failed"
    /\ ~VolumeChecksPass
    /\ ~OperationStarted

\* the cluster chain of a file or directory: from its first cluster along
\* the FAT up to an end-of-chain value or a 0
RECURSIVE ChainFrom(_, _)
ChainFrom(cluster, fuel) ==
    IF fuel = 0 \/ cluster = 0 \/ cluster >= 268435448 \/ cluster \notin DOMAIN fat
    THEN <<>>
    ELSE <<cluster>> \o ChainFrom(fat[cluster] % 268435456, fuel - 1)

ChainOf(slot) == ChainFrom((slot.hi * 65536 + slot.lo) % 268435456, Cardinality(DOMAIN fat))

RECURSIVE TotalLen(_)
TotalLen(chunks) ==
    IF chunks = <<>> THEN 0 ELSE Head(chunks).len + TotalLen(Tail(chunks))

\* the bytes of a file of size S over its chain: every cluster in full, the
\* last cut to S mod bytesPerCluster, or in full when that is 0
ExactChunks(chain, S) ==
    [k \in 1..Len(chain) |->
        [cluster |-> chain[k],
         len |-> IF k < Len(chain) \/ S % bytesPerCluster = 0
                 THEN bytesPerCluster
                 ELSE S % bytesPerCluster]]

\* S <= C * bytesPerCluster < S + bytesPerCluster
ChainFitsSize(chain, S) ==
    /\ bytesPerCluster > 0
    /\ S <= Len(chain) * bytesPerCluster
    /\ Len(chain) * bytesPerCluster < S + bytesPerCluster

CopyFinished == pc \in {"afterGet", "finish", "exit"} /\ copy.called

\* C2: for a file of size S whose chain has C clusters with
\* S <= C*bytesPerCluster < S+bytesPerCluster, copyFile writes exactly S
\* bytes, the clusters in chain order, all in full but the last, which is
\* cut to S mod bytesPerCluster (in full when S is a multiple).
C2_ExtractionByteExact ==
    (CopyFinished /\ ChainFitsSize(ChainOf(copy.targetDir), copy.targetDir.size))
        => /\ sink = ExactChunks(ChainOf(copy.targetDir), copy.targetDir.size)
           /\ TotalLen(sink) = copy.targetDir.size

\* a copy of a file of three clusters whose last cluster is cut
C2_Witness ==
    /\ CopyFinished
    /\ ChainFitsSize(ChainOf(copy.targetDir), copy.targetDir.size)
    /\ Len(ChainOf(copy.targetDir)) = 3
    /\ copy.targetDir.size % bytesPerCluster # 0
    /\ Len(sink) = 3

\* the extractor's three reasons to stop
StopCondition(c) ==
    \/ c.bytesLeft = 0
    \/ c.startingCluster % 268435456 >= 268435448
    \/ c.startingCluster = 0

\* the chain ends before the declared size is reached
ChainEndsEarly(chain, S) == bytesPerCluster > 0 /\ Len(chain) * bytesPerCluster < S

WholeChunks(chain) ==
    [k \in 1..Len(chain) |-> [cluster |-> chain[k], len |-> bytesPerCluster]]

\* C7: the extractor goes on to another cluster exactly while bytesLeft is
\* not 0 and the current cluster is neither an end-of-chain value nor 0; when
\* the chain ends before the declared size, only the whole clusters of the
\* chain are written, in order, fewer bytes than declared, and get still ends
\* in success.
C7_ExtractorStops ==
    /\ [][pc = "copy" => (pc' = "copy" <=> ~StopCondition(copy))]_vars
    /\ []((pc = "exit" /\ copy.called
              /\ ChainEndsEarly(ChainOf(copy.targetDir), copy.targetDir.size))
            => /\ sink = WholeChunks(ChainOf(copy.targetDir))
               /\ TotalLen(sink) < copy.targetDir.size
               /\ foundFile
               /\ exitCode = "success"
               /\ errMsg = "")

\* a get that ended after a chain of two clusters stopped short of the size
C7_Witness ==
    /\ pc = "exit"
    /\ copy.called
    /\ ChainEndsEarly(ChainOf(copy.targetDir), copy.targetDir.size)
    /\ Len(ChainOf(copy.targetDir)) = 2
    /\ Len(sink) = 2
    /\ exitCode = "success"

\* a live entry: not the end marker, not deleted, hidden, system and
\* volume-id bits clear
IsLiveEntry(slot) ==
    /\ slot.name[1] # 0
    /\ slot.name[1] # 229
    /\ (slot.attr \div 2) % 2 = 0
    /\ (slot.attr \div 4) % 2 = 0
    /\ (slot.attr \div 8) % 2 = 0

HasDirectoryBit(slot) == (slot.attr \div 16) % 2 = 1

IsDotEntry(slot) == slot.name \in {N_DOT, N_DOTDOT}

\* the places <<cluster, slot index>> of the live entries of a directory,
\* "." and ".." apart, in the order of the slots and of the chain, up to the
\* end-of-directory marker
RECURSIVE LiveBeforeEnd(_, _)
LiveBeforeEnd(chain, i) ==
    IF chain = <<>> \/ Head(chain) \notin DOMAIN clusters THEN <<>>
    ELSE IF i >= entriesPerCluster THEN LiveBeforeEnd(Tail(chain), 0)
    ELSE LET slot == clusters[Head(chain)][i + 1]
         IN  IF slot.name[1] = 0 THEN <<>>
             ELSE (IF IsLiveEntry(slot) /\ ~IsDotEntry(slot)
                   THEN <<(<<Head(chain), i>>)>> ELSE <<>>)
                  \o LiveBeforeEnd(chain, i + 1)

Range(seq) == {seq[k] : k \in 1..Len(seq)}

\* the places of the entries list printed, among the given ones, in order
PrintedAmong(places) ==
    LET Among(e) == e.at \in Range(places)
        printed == SelectSeq(report, Among)
    IN  [k \in 1..Len(printed) |-> printed[k].at]

\* the first clusters of the directories the walk entered
DirectoriesEntered ==
    {bootSector.BPB_RootClus % 268435456}
    \cup {ChainOf(clusters[report[k].at[1]][report[k].at[2] + 1])[1] :
             k \in {j \in 1..Len(report) :
                       /\ report[j].kind = "dir"
                       /\ ChainOf(clusters[report[j].at[1]][report[j].at[2] + 1]) # <<>>}}

ListEnded == pc = "exit" /\ argv.cmd = "list" /\ exitCode = "success"

\* C3: when list has ended, for every directory entered, at every depth,
\* each live entry before the end-of-directory marker was printed exactly
\* once, in the order of the slots and of the clusters of the chain.
C3_WalkPrintsEveryLiveEntry ==
    ListEnded =>
        \A d \in DirectoriesEntered :
            LET live == LiveBeforeEnd(ChainFrom(d, Cardinality(DOMAIN fat)), 0)
            IN  PrintedAmong(live) = live

\* trailing spaces stripped
RECURSIVE StripSpaces(_)
StripSpaces(string) ==
    IF string # <<>> /\ string[Len(string)] = 32
    THEN StripSpaces(SubSeq(string, 1, Len(string) - 1))
    ELSE string

BaseName(slot) == StripSpaces(SubSeq(slot.name, 1, 8))

ShortFileName(slot) == BaseName(slot) \o <<46>> \o StripSpaces(SubSeq(slot.name, 9, 11))

\* the components of a slash-delimited path
RECURSIVE Components(_, _)
Components(path, current) ==
    IF path = <<>> THEN <<current>>
    ELSE IF Head(path) = 47 THEN <<current>> \o Components(Tail(path), <<>>)
    ELSE Components(Tail(path), Append(current, Head(path)))

\* the entries found in the cluster chain of a directory: in each cluster of
\* the chain, the slots before that cluster's end marker
EntriesOf(chain) ==
    UNION {{clusters[c][i + 1] :
               i \in {j \in 0..(entriesPerCluster - 1) :
                         \A h \in 0..j : clusters[c][h + 1].name[1] # 0}} :
           c \in Range(chain) \cap DOMAIN clusters}

RECURSIVE Resolves(_, _)
Resolves(chain, components) ==
    IF Len(components) = 1
    THEN \E slot \in EntriesOf(chain) :
            /\ IsLiveEntry(slot)
            /\ ~HasDirectoryBit(slot)
            /\ ShortFileName(slot) = components[1]
    ELSE \E slot \in EntriesOf(chain) :
            /\ IsLiveEntry(slot)
            /\ HasDirectoryBit(slot)
            /\ BaseName(slot) = components[1]
            /\ Resolves(ChainOf(slot), Tail(components))

PathResolves ==
    Resolves(ChainFrom(bootSector.BPB_RootClus % 268435456, Cardinality(DOMAIN fat)),
             Components(argv.path, <<>>))

GetEnded == pc = "exit" /\ argv.cmd = "get" /\ argv.argc = 4 /\ VolumeChecksPass

\* C4: get ends in success, the file found and copied, exactly when the
\* path resolves: each leading component the base name of a live directory
\* of the directory reached so far, the last the short name base.ext of a
\* live file there, base and extension with trailing spaces stripped; in
\* every other case it ends in failure and nothing is copied.
C4_GetSucceedsIffPathResolves ==
    GetEnded =>
        /\ (foundFile /\ copy.called /\ exitCode = "success") <=> PathResolves
        /\ ~PathResolves => (exitCode = "failure" /\ ~copy.called)

\* C8: every geometry that passed validation satisfies sectorsPerCluster > 0,
\* FATSizeSectors # 0, rootClusterNumber >= 2, totalSectors >= 65525 and
\* twelve zero reserved bytes, hence a positive bytesPerCluster and
\* entriesPerCluster whenever bytesPerSector is positive.
C8_ValidatedGeometry ==
    (pc \in {"dispatch", "list", "get", "copy", "afterGet", "finish"}
        \/ exitCode = "success")
    => /\ bootSector.BPB_SecPerClus > 0
       /\ bootSector.BPB_FATSz32 # 0
       /\ bootSector.BPB_RootClus >= 2
       /\ bootSector.BPB_TotSec32 >= 65525
       /\ \A k \in 1..12 : bootSector.BPB_reserved[k] = 0
       /\ bootSector.BPB_BytesPerSec > 0
            => (bytesPerCluster > 0 /\ entriesPerCluster > 0)

\* the walk is about to read a slot it scans: in the loop of the top call,
\* at depth 0 or past the first two slots, the slot neither the end marker
\* nor deleted; Scanned is the slot, After the same call after the step
ScanStep ==
    /\ pc = "list"
    /\ stack # <<>>
    /\ stack' # stack
    /\ Top.pos = "loop"
    /\ Top.i < entriesPerCluster
    /\ Top.depth = 0 \/ Top.i > 1
    /\ clusters[Top.clusterNum][Top.i + 1].name[1] \notin {0, 229}

Scanned == clusters[Top.clusterNum][Top.i + 1]

After == stack'[Len(stack)]

IsLongEntry(slot) == slot.attr % 64 = 15

PrintsOne == Len(report') = Len(report) + 1

Printed == report'[Len(report')]

\* C5: a live short entry reached while a long name is accumulated is
\* printed with the long name exactly when its own checksum equals the one
\* recorded, and with its short name only otherwise; a long entry with
\* another checksum discards the accumulation, and the short entry reached
\* with nothing accumulated is printed with its short name only; in each
\* case nothing is accumulated afterwards.
C5_LongNamePairedByChecksum ==
    [][ScanStep =>
          /\ (IsLiveEntry(Scanned) /\ Top.longNameStarted)
                => /\ PrintsOne
                   /\ Printed.hasLong <=> (ChkSum(Scanned.name) = Top.checkSum)
                   /\ Printed.hasLong =>
                         Printed.long = PrintLongName(Top.totalLongName,
                                                      Top.numLongNameEntries)
                   /\ ~After.longNameStarted
          /\ (IsLongEntry(Scanned) /\ Top.longNameStarted
                 /\ Scanned.chk # Top.checkSum)
                => /\ report' = report
                   /\ ~After.longNameStarted
          /\ (IsLiveEntry(Scanned) /\ ~Top.longNameStarted)
                => /\ PrintsOne
                   /\ ~Printed.hasLong
                   /\ ~After.longNameStarted
       ]_vars

\* a list that printed a long name accumulated from two entries, and one
\* short name alone
C5_Witness ==
    /\ pc = "list"
    /\ Len(report) = 1
    /\ report[1].hasLong
    /\ Len(report[1].ords) = 2
    /\ ~stack[1].longNameStarted

SequenceNumber(ord) == IF ord >= 64 THEN ord - 64 ELSE ord

\* C9: while accumulating, a long entry is appended only if its checksum
\* equals the recorded one, its type is 0 and its order byte is exactly one
\* less than the sequence number of the entry accepted before it; any other
\* long entry is not appended and the accumulation is discarded.
C9_AppendsOnlyNextInSequence ==
    [][(ScanStep /\ Top.longNameStarted /\ IsLongEntry(Scanned)) =>
          LET appended == /\ After.longNameStarted
                          /\ After.numLongNameEntries = Top.numLongNameEntries + 1
          IN  /\ appended <=>
                    /\ Scanned.chk = Top.checkSum
                    /\ Scanned.type = 0
                    /\ Scanned.name[1] = SequenceNumber(Top.previousNameOrder) - 1
              /\ ~appended => ~After.longNameStarted
       ]_vars

\* C10: a long name is printed only for a complete chain: the entries
\* accumulated are those of sequence numbers N, N-1, ..., 1, from the one
\* flagged "last" down to 1.
C10_LongNameOnlyForCompleteChain ==
    \A k \in 1..Len(report) :
        (report[k].kind \in {"dir", "file"} /\ report[k].hasLong)
        => LET ords == report[k].ords
               N == SequenceNumber(ords[1])
           IN  /\ ords[1] >= 64
               /\ Len(ords) = N
               /\ \A j \in 2..Len(ords) : ords[j] = N - j + 1


\* readCluster calls itself for the next cluster of the directory's chain
RcFollowsChain == RcChain /\ Len(stack') = Len(stack) + 1

\* fetchFile calls itself for the next cluster of the directory's chain
FfFollowsChain == FfChain /\ pc' = "get"

\* C11: the scan of a directory ends at the first end-of-directory marker:
\* the list walk and the path lookup go on to the next cluster of the chain
\* only when every slot of the cluster was scanned without meeting the
\* marker, so no slot of a later cluster is read after the marker.
C11_ScanEndsAtMarker ==
    [][/\ RcFollowsChain => (Top.pos = "loop" /\ Top.i >= entriesPerCluster)
       /\ FfFollowsChain => (fetch.pos = "loop" /\ fetch.i >= entriesPerCluster)]_vars

\* the list walk reads the slot at index i of the top call's cluster, and
\* the slot is a live entry
LiveSlotStep == RcSlot /\ IsLiveEntry(Scanned)

\* the slot read is one of the first two of its cluster
FirstTwoSlots == Top.i <= 1

\* C12 as stated: a live entry is passed over without being printed exactly
\* when it is in slot 0 or 1 and the depth is 0; at any depth above 0 the
\* first two slots are handled like the others.
C12_SkipsFirstTwoAtDepthZero ==
    [][LiveSlotStep => (~PrintsOne <=> (FirstTwoSlots /\ Top.depth = 0))]_vars

\* C12, amended: a live entry is passed over without being printed, and
\* without any other change to the call than the loop index, exactly when
\* it is in slot 0 or 1 of a cluster scanned at a depth above 0; at depth 0
\* every live entry is printed, the first two slots included.
C12_SkipsFirstTwoBelowRoot ==
    [][LiveSlotStep =>
          /\ ~PrintsOne <=> (FirstTwoSlots /\ Top.depth > 0)
          /\ ~PrintsOne => /\ report' = report
                           /\ After = [Top EXCEPT !.i = Top.i + 1]
          /\ PrintsOne => Printed.at = <<Top.clusterNum, Top.i>>]_vars

\* a list that ended having printed slot 0 of the root cluster and having
\* read, without printing them, the live entries in slots 0 and 1 of the
\* first cluster of a subdirectory
C12_Witness ==
    /\ ListEnded
    /\ \E k \in 1..Len(report) :
          /\ report[k].at = <<2, 0>>
          /\ report[k].kind = "dir"
          /\ LET sub == FirstCluster(clusters[2][1])
             IN  /\ sub \in reads
                 /\ IsLiveEntry(clusters[sub][1])
                 /\ IsLiveEntry(clusters[sub][2])
                 /\ \A j \in 1..Len(report) :
                       report[j].at \notin {<<sub, 0>>, <<sub, 1>>}

\* C13: the buffer of the long name is never overrun: in every call of the
\* walk at most LONG_NAME_CAP code units, the units of 20 entries, have been
\* copied into it.
C13_LongNameBufferNeverOverrun ==
    \A k \in 1..Len(stack) :
        /\ stack[k].charsAdded <= LONG_NAME_CAP
        /\ stack[k].numLongNameEntries <= LONG_NAME_CAP \div UNITS_PER_ENTRY

\* C14: every read of the data region uses a cluster number of at least 2
\* and below the end-of-chain range, in readCluster, fetchFile and copyFile,
\* so that cluster - 2 never wraps around.
C14_DataReadsUseValidClusters ==
    \A c \in reads : c >= 2 /\ c < END_OF_CLUSTER_CHAIN

CeilDiv(a, b) == (a + b - 1) \div b

\* C15: the extraction of a file always terminates, whatever the FAT holds,
\* a chain that leads back on itself included: every iteration of copyFile's
\* loop strictly decreases bytesLeft, copyFile runs only with a cluster size
\* of at least one directory slot, it makes at most ceil(S / bytesPerCluster)
\* iterations for the declared size S, and the loop is always left.
C15_CopyTerminates ==
    /\ [][CfStep => copy'.bytesLeft < copy.bytesLeft]_vars
    /\ [](copy.called =>
             /\ bytesPerCluster >= DIR_INFO_SIZE
             /\ Len(sink) <= CeilDiv(copy.targetDir.size, bytesPerCluster))
    /\ [](pc = "copy" => <>(pc # "copy"))

\* a get that ended after copyFile went once around a chain that leads back
\* to its first cluster, having made every iteration the size allows
C15_Witness ==
    /\ pc = "exit"
    /\ copy.called
    /\ Len(sink) = CeilDiv(copy.targetDir.size, bytesPerCluster)
    /\ Len(sink) > MaxChain
    /\ sink[Len(sink)].cluster = sink[1].cluster

====
